---- MODULE Spec2Model ----
(***************************************************************************)
(* A model of the activity module (src/activity.py): the derivation of     *)
(* the temporal fields of an activity (update_dates, on_change_dtstart),   *)
(* the record store behind create / write / plan / do / cancel, the        *)
(* calendar colours and the day busy hours.                                *)
(*                                                                         *)
(* Time is counted in slots: a day has DayLen slots, a naive datetime is   *)
(* the integer date * DayLen + time, a timedelta is a number of slots.     *)
(* An optional value is a sequence: << >> is Python's None, <<x>> is x.    *)
(* A mapping of field names to values (a Python dict) is a function whose  *)
(* DOMAIN is the set of keys present.                                      *)
(***************************************************************************)
EXTENDS Integers, Sequences, FiniteSets, TLC

VARIABLES
    activities,   \* the activity table: a sequence of records, the id is the index
    sequence,     \* Config(1).activity_sequence: None or <<"seq">>
    number,       \* how many numbers the sequence has handed out
    now,          \* the wall clock's time of day (datetime.datetime.now().time())
    timezone,     \* the timezone of the company of the context (a Zone)
    call          \* the call being made or the last one made, with its result

vars == <<activities, sequence, number, now, timezone, call>>

----------------------------------------------------------------------------
(* Bounds of the model *)

DayLen == 3          \* slots per day; the time 0 is midnight
MaxDate == 2         \* dates are 1..MaxDate
MaxDur == 1          \* durations are 0..MaxDur slots
MaxActivities == 1   \* rows of the activity table that create fills
MaxRows == 2         \* rows of the table the busy hours are read from

----------------------------------------------------------------------------
(* Python values *)

None == << >>
Some(x) == <<x>>
IsSet(v) == v # None

\* dict.get(key): the value, None when the key is missing
Get(values, key) == IF key \in DOMAIN values THEN values[key] ELSE None

\* values[key] = v
Put(values, key, v) ==
    [k \in (DOMAIN values) \cup {key} |-> IF k = key THEN v ELSE values[k]]

\* bool(timedelta): a zero timedelta is false, as is None
TruthyDuration(d) == IsSet(d) /\ d[1] # 0

\* bool(time): every datetime.time is true (Python >= 3.5), None is false
TruthyTime(t) == IsSet(t)

Times == 0 .. (DayLen - 1)
Dates == 1 .. MaxDate
Durations == 0 .. MaxDur
midnight == 0

\* datetime.date(), datetime.time(), datetime.combine(date, time)
date_of(dt) == dt \div DayLen
time_of(dt) == dt % DayLen
combine(d, t) == d * DayLen + t

----------------------------------------------------------------------------
(* Timezones.  A Zone is None (the company has no timezone) or             *)
(* <<std, dst, switch>>: the offset from UTC is std before the local       *)
(* datetime switch and dst from it on.                                     *)

Zones == { None, <<1, 1, 0>>, <<0, 1, DayLen + 1>> }

\* timezone.localize(value).utcoffset()
utcoffset(zone, value) == IF value >= zone[3] THEN zone[2] ELSE zone[1]

\* Activity.get_timezone: the zone of the company of the context
get_timezone == timezone

\* Activity.utc_to_local
utc_to_local(value) ==
    IF get_timezone = None THEN value
    ELSE value + utcoffset(get_timezone, value)

\* Activity.local_to_utc
local_to_utc(value) ==
    IF get_timezone = None THEN value
    ELSE value - utcoffset(get_timezone, value)

----------------------------------------------------------------------------
(* Activity.update_dates(values, record).  record is None or <<r>> with r  *)
(* a row of the table.  The result is the mapping returned, or             *)
(* AttributeError when the code calls .date() on None.                     *)

AttributeError == [error |-> "AttributeError"]
Raised(res) == "error" \in DOMAIN res

\* lines 409-424: no date in the update
update_dates_from_dtstart(values, record) ==
    LET has_dtstart == "dtstart" \in DOMAIN values
        dtstart == IF has_dtstart THEN values["dtstart"]
                   ELSE IF IsSet(record) THEN record[1].dtstart
                   ELSE None
        derived == IF has_dtstart
                   THEN Put(Put(values, "date", Some(date_of(dtstart[1]))),
                            "time", Some(time_of(dtstart[1])))
                   ELSE values
    IN  IF "dtend" \in DOMAIN values
        THEN [returned |-> TRUE,
              values |-> Put(derived, "duration",
                             IF IsSet(values["dtend"]) /\ IsSet(dtstart)
                             THEN Some(values["dtend"][1] - dtstart[1])
                             ELSE None)]
        ELSE [returned |-> FALSE, values |-> derived]

\* lines 426-429: the fields the update leaves out come from the record
update_dates_from_record(values, record) ==
    IF IsSet(record)
    THEN [k \in (DOMAIN values) \cup {"date", "time", "duration"} |->
            IF k \in DOMAIN values THEN values[k] ELSE record[1][k]]
    ELSE values

\* lines 431-445: dtstart and dtend from date, time and duration; clock is
\* the value of datetime.datetime.now().time()
update_dates_compute(values, clock) ==
    LET date == Get(values, "date")
        given == Get(values, "time")
        time == IF ~TruthyTime(given) THEN Some(clock) ELSE given
        duration == Get(values, "duration")
        dtstart == local_to_utc(combine(date[1], time[1]))
        dtend == IF TruthyTime(time) /\ TruthyDuration(duration)
                 THEN Some(dtstart + duration[1])
                 ELSE None
    IN  IF ~IsSet(date) THEN values
        ELSE Put(Put(values, "dtstart", Some(dtstart)), "dtend", dtend)

update_dates_at(values, record, clock) ==
    IF "date" \notin DOMAIN values /\ "dtstart" \in DOMAIN values
       /\ ~IsSet(values["dtstart"])
    THEN AttributeError
    ELSE LET first == IF "date" \notin DOMAIN values
                      THEN update_dates_from_dtstart(values, record)
                      ELSE [returned |-> FALSE, values |-> values]
         IN  IF first.returned THEN first.values
             ELSE update_dates_compute(
                      update_dates_from_record(first.values, record), clock)

\* Activity.update_dates, called when the wall clock shows now
update_dates(values, record) == update_dates_at(values, record, now)

\* Activity.on_change_dtstart on an instance whose dtstart is dtstart: the
\* instance's date and time afterwards (nothing changes when dtstart is None)
on_change_dtstart(dtstart) ==
    IF ~IsSet(dtstart) THEN [changed |-> FALSE]
    ELSE LET dt == utc_to_local(dtstart[1])
         IN  [changed |-> TRUE,
              date |-> Some(date_of(dt)),
              time |-> IF time_of(dt) = midnight THEN None
                       ELSE Some(time_of(dt))]

----------------------------------------------------------------------------
(* The rows of the activity table *)

States == {"planned", "done", "cancelled"}

\* Activity.default_state
default_state == "planned"

\* Activity.default_employee: the employee of the user
default_employee == 1

\* ModelSQL.create of one mapping: a field the mapping leaves out gets its
\* default (None when it has none)
new_row(vals) ==
    [code     |-> Get(vals, "code"),
     date     |-> Get(vals, "date"),
     time     |-> Get(vals, "time"),
     duration |-> Get(vals, "duration"),
     dtstart  |-> Get(vals, "dtstart"),
     dtend    |-> Get(vals, "dtend"),
     state    |-> IF "state" \in DOMAIN vals THEN vals["state"]
                  ELSE default_state,
     employee |-> IF "employee" \in DOMAIN vals THEN vals["employee"]
                  ELSE default_employee]

\* Activity.create, lines 389-390, for one mapping: the code from the
\* sequence, then the temporal fields
create_vals(vals, code, clock) ==
    LET coded == Put(vals, "code", Some(code))
        dates == update_dates_at(coded, None, clock)
    IN  [k \in (DOMAIN coded) \cup (DOMAIN dates) |->
            IF k \in DOMAIN dates THEN dates[k] ELSE coded[k]]

----------------------------------------------------------------------------
(* Inputs.  An option is None, <<x>>, or Absent: the key is not in the     *)
(* mapping.                                                                *)

Absent == <<0, 0>>
Opt(S) == {Absent, None} \cup {Some(x) : x \in S}

\* the mapping with the keys whose option is not Absent
Mapping(options) ==
    [k \in {f \in DOMAIN options : options[f] # Absent} |-> options[k]]

Stamps == {combine(d, t) : d \in Dates, t \in Times}
LastStamps == {combine(MaxDate, t) : t \in Times}

UpdateValues ==
    {Mapping([date |-> d, time |-> t, duration |-> u, dtstart |-> s,
              dtend |-> e]) :
        d \in Opt(Dates), t \in Opt(Times), u \in Opt(Durations),
        s \in Opt(Stamps), e \in Opt(LastStamps)}

\* the rows a create leaves in the table: a date, perhaps a time and a
\* duration, written when the clock showed then
StoredRows ==
    {new_row(create_vals(Mapping([date |-> Some(1), time |-> t,
                                  duration |-> u]), 1, then)) :
        t \in Opt(Times) \ {None}, u \in Opt(Durations) \ {None},
        then \in Times}

----------------------------------------------------------------------------
(* SpecDates: update_dates and on_change_dtstart as functions of their     *)
(* inputs                                                                  *)

InitDates ==
    /\ activities = << >>
    /\ sequence = None
    /\ number = 0
    /\ now \in Times
    /\ timezone \in Zones
    /\ call \in {[op |-> "pending", values |-> v, record |-> r] :
                    v \in UpdateValues,
                    r \in {None} \cup {Some(x) : x \in StoredRows}}

\* cls.update_dates(values, record)
CallUpdateDates ==
    /\ call.op = "pending"
    /\ call' = [op |-> "update_dates", values |-> call.values,
                record |-> call.record,
                result |-> update_dates(call.values, call.record)]
    /\ UNCHANGED <<activities, sequence, number, now, timezone>>

\* the dtstart of the instance a form shows: the changed value, else the
\* record's
form_dtstart(values, record) ==
    IF "dtstart" \in DOMAIN values THEN values["dtstart"]
    ELSE IF IsSet(record) THEN record[1].dtstart
    ELSE None

\* instance.on_change_dtstart()
CallOnChangeDtstart ==
    /\ call.op = "pending"
    /\ call' = [op |-> "on_change_dtstart",
                dtstart |-> form_dtstart(call.values, call.record),
                result |-> on_change_dtstart(
                               form_dtstart(call.values, call.record))]
    /\ UNCHANGED <<activities, sequence, number, now, timezone>>

NextDates == CallUpdateDates \/ CallOnChangeDtstart

SpecDates == InitDates /\ [][NextDates]_vars

----------------------------------------------------------------------------
(* Spec: the activity table under create, write, plan, do and cancel *)

\* the transitions without the one from cancelled to done
five_transitions ==
    { <<"planned", "done">>, <<"planned", "cancelled">>,
      <<"done", "planned">>, <<"done", "cancelled">>,
      <<"cancelled", "planned">> }

\* Activity.__setup__: cls._transitions
_transitions ==
    { <<"planned", "done">>, <<"planned", "cancelled">>,
      <<"done", "planned">>, <<"done", "cancelled">>,
      <<"cancelled", "planned">>, <<"cancelled", "done">> }

\* the mappings create is called with: a full-day activity and a timed one
\* with a duration
CreateInputs ==
    { Mapping([date |-> Some(1), time |-> Absent, duration |-> Absent]),
      Mapping([date |-> Some(1), time |-> Some(1), duration |-> Some(1)]) }

\* the mappings write is called with: the time is cleared, the duration
\* is set, the calendar moves the activity
WriteInputs ==
    { Mapping([time |-> None, dtstart |-> Absent, dtend |-> Absent,
               duration |-> Absent]),
      Mapping([time |-> Absent, dtstart |-> Absent, dtend |-> Absent,
               duration |-> Some(1)]),
      Mapping([time |-> Absent, dtstart |-> Some(combine(1, 0)),
               dtend |-> Some(combine(1, 1)), duration |-> Absent]) }

Batches(S) == {<<x>> : x \in S} \cup {<<x, y>> : x \in S, y \in S}

\* ModelSQL.write of one record: the fields of the mapping are stored
store(row, vals) ==
    [k \in DOMAIN row |-> IF k \in DOMAIN vals THEN vals[k] ELSE row[k]]

\* Activity.create without the check of lines 385-386: the records are
\* created with no code
create_unchecked(vlist) ==
    [raised |-> "none",
     activities |-> activities \o
        [i \in 1 .. Len(vlist) |-> new_row(update_dates(vlist[i], None))],
     number |-> number]

\* Activity.create: what it raises, and the table and the sequence after it
create(vlist) ==
    IF ~IsSet(sequence)
    THEN [raised |-> "UserError", activities |-> activities,
          number |-> number]
    ELSE [raised |-> "none",
          activities |-> activities \o
             [i \in 1 .. Len(vlist) |->
                 new_row(create_vals(vlist[i], number + i, now))],
          number |-> number + Len(vlist)]

\* Activity.write(activities, values): every record gets the mapping
\* update_dates makes of values for it
write(ids, values) ==
    [id \in DOMAIN activities |->
        IF id \in ids
        THEN store(activities[id], update_dates(values, Some(activities[id])))
        ELSE activities[id]]

\* Workflow.transition(target) around the empty bodies of plan, do and
\* cancel: the records whose state may move to target are written
transition(ids, target) ==
    LET to_update == {id \in ids :
                        /\ <<activities[id].state, target>> \in _transitions
                        /\ activities[id].state # target}
    IN  IF to_update = {} THEN activities
        ELSE write(to_update, [state |-> target])

Init ==
    /\ activities = << >>
    /\ sequence = None
    /\ number = 0
    /\ now \in Times
    /\ timezone \in Zones
    /\ call = [op |-> "none"]

\* the configuration's activity sequence is set or cleared
Configure ==
    /\ sequence' = IF IsSet(sequence) THEN None ELSE Some(1)
    /\ UNCHANGED <<activities, number, now, timezone, call>>

\* the wall clock moves
Tick ==
    /\ \E t \in Times \ {now} : now' = t
    /\ UNCHANGED <<activities, sequence, number, timezone, call>>

Create ==
    \E vlist \in Batches(CreateInputs) :
        /\ IsSet(sequence) => Len(activities) + Len(vlist) <= MaxActivities
        /\ activities' = create(vlist).activities
        /\ number' = create(vlist).number
        /\ call' = [op |-> "create", count |-> Len(vlist),
                    raised |-> create(vlist).raised]
        /\ UNCHANGED <<sequence, now, timezone>>

Write ==
    \E ids \in (SUBSET DOMAIN activities) \ {{}}, values \in WriteInputs :
        /\ activities' = write(ids, values)
        /\ call' = [op |-> "write", ids |-> ids]
        /\ UNCHANGED <<sequence, number, now, timezone>>

Plan ==
    \E ids \in (SUBSET DOMAIN activities) \ {{}} :
        /\ activities' = transition(ids, "planned")
        /\ call' = [op |-> "plan", ids |-> ids]
        /\ UNCHANGED <<sequence, number, now, timezone>>

Do ==
    \E ids \in (SUBSET DOMAIN activities) \ {{}} :
        /\ activities' = transition(ids, "done")
        /\ call' = [op |-> "do", ids |-> ids]
        /\ UNCHANGED <<sequence, number, now, timezone>>

Cancel ==
    \E ids \in (SUBSET DOMAIN activities) \ {{}} :
        /\ activities' = transition(ids, "cancelled")
        /\ call' = [op |-> "cancel", ids |-> ids]
        /\ UNCHANGED <<sequence, number, now, timezone>>

Next == Configure \/ Tick \/ Create \/ Write \/ Plan \/ Do \/ Cancel

Spec == Init /\ [][Next]_vars

----------------------------------------------------------------------------
(* Colours.  A string is a sequence of characters: 0..15 are the hex       *)
(* digits, NotHex is any other character, Hash is '#'.  An RGB value is a  *)
(* triple of channels.                                                     *)

NotHex == 16
Hash == 17

\* _COLOR = '#ABD6E3'
_COLOR == <<Hash, 10, 11, 13, 6, 14, 3>>

\* _RGB = (67, 84, 90)
_RGB == <<67, 84, 90>>

Min(a, b) == IF a < b THEN a ELSE b
Max(a, b) == IF a > b THEN a ELSE b

\* str.lstrip('#')
RECURSIVE lstrip(_)
lstrip(color) ==
    IF color # << >> /\ Head(color) = Hash THEN lstrip(Tail(color)) ELSE color

\* color[i:i+2], i counted from 0
slice(color, i) == SubSeq(color, i + 1, Min(i + 2, Len(color)))

\* int(text, 16) raises ValueError on the empty string and on a character
\* that is no hex digit
ValueError(text) == text = << >> \/ \E k \in DOMAIN text : text[k] > 15
int16(text) == IF Len(text) = 1 THEN text[1] ELSE 16 * text[1] + text[2]

\* RGB.__init__ of a string: the value
RGB(color) ==
    LET stripped == lstrip(color)
    IN  IF \E i \in {0, 2, 4} : ValueError(slice(stripped, i)) THEN _RGB
        ELSE <<int16(slice(stripped, 0)), int16(slice(stripped, 2)),
               int16(slice(stripped, 4))>>

\* RGB.hex: '#%02x%02x%02x'
hex(value) ==
    <<Hash, value[1] \div 16, value[1] % 16, value[2] \div 16,
      value[2] % 16, value[3] \div 16, value[3] % 16>>

\* RGB.gray
gray(value) == (value[1] + value[2] + value[3]) \div 3

\* RGB.increase
increase(value, inc) ==
    [i \in 1 .. 3 |-> Max(0, Min(255, value[i] + inc))]

\* RGB.increase_ratio, the ratio being num / den: int() of a product that
\* is not negative is its floor
increase_ratio(value, num, den) ==
    increase(value, ((255 - gray(value)) * num) \div den)

\* bool(text) of an optional string: None and '' are false
TruthyText(text) == IsSet(text) /\ text[1] # << >>

\* the fall-through reading of lines 473-480: the employee's colour stands
\* in for a missing type colour
base_color_fallthrough(flag, type_color, employee_color) ==
    IF flag /\ TruthyText(type_color) THEN type_color[1]
    ELSE IF TruthyText(employee_color) THEN employee_color[1]
    ELSE _COLOR

\* Activity.get_calendar_background_color, lines 473-480: the colour before
\* any fading
base_color(flag, type_color, employee_color) ==
    IF flag
    THEN IF TruthyText(type_color) THEN type_color[1] ELSE _COLOR
    ELSE IF TruthyText(employee_color) THEN employee_color[1] ELSE _COLOR

\* Activity.get_calendar_background_color
get_calendar_background_color(state, flag, type_color, employee_color) ==
    IF state # "planned"
    THEN hex(increase_ratio(RGB(base_color(flag, type_color, employee_color)),
                            4, 5))
    ELSE base_color(flag, type_color, employee_color)

get_calendar_color_inclusive(background) ==
    IF gray(RGB(background)) >= 128 THEN "black" ELSE "white"

\* Activity.get_calendar_color, of the background colour of the activity
get_calendar_color(background) ==
    IF gray(RGB(background)) > 128 THEN "black" ELSE "white"

\* the colours a type or an employee is given: none, '', '#808080',
\* '#818181', '#ff0000', '#000000', 'abd6e3', 'red', '#fff'
ColorInputs ==
    { None, Some(<< >>),
      Some(<<Hash, 8, 0, 8, 0, 8, 0>>), Some(<<Hash, 8, 1, 8, 1, 8, 1>>),
      Some(<<Hash, 15, 15, 0, 0, 0, 0>>), Some(<<Hash, 0, 0, 0, 0, 0, 0>>),
      Some(<<10, 11, 13, 6, 14, 3>>),
      Some(<<NotHex, 14, 13>>), Some(<<Hash, 15, 15, 15>>) }

InitColor ==
    /\ activities = << >>
    /\ sequence = None
    /\ number = 0
    /\ now = 0
    /\ timezone = None
    /\ call \in {[op |-> "pending", state |-> st, flag |-> f,
                   type_color |-> t, employee_color |-> e] :
                    st \in States, f \in BOOLEAN,
                    t \in ColorInputs, e \in ColorInputs}

\* activity.calendar_background_color
CallBackgroundColor ==
    /\ call.op = "pending"
    /\ call' = [op |-> "get_calendar_background_color",
                state |-> call.state, flag |-> call.flag,
                type_color |-> call.type_color,
                employee_color |-> call.employee_color,
                base |-> base_color(call.flag, call.type_color,
                                    call.employee_color),
                result |-> get_calendar_background_color(call.state,
                               call.flag, call.type_color,
                               call.employee_color)]
    /\ UNCHANGED <<activities, sequence, number, now, timezone>>

\* activity.calendar_color
CallColor ==
    /\ call.op = "pending"
    /\ call' = [op |-> "get_calendar_color",
                state |-> call.state, flag |-> call.flag,
                type_color |-> call.type_color,
                employee_color |-> call.employee_color,
                base |-> base_color(call.flag, call.type_color,
                                    call.employee_color),
                background |-> get_calendar_background_color(call.state,
                               call.flag, call.type_color,
                               call.employee_color),
                result |-> get_calendar_color(
                               get_calendar_background_color(call.state,
                                   call.flag, call.type_color,
                                   call.employee_color))]
    /\ UNCHANGED <<activities, sequence, number, now, timezone>>

NextColor == CallBackgroundColor \/ CallColor

SpecColor == InitColor /\ [][NextColor]_vars

----------------------------------------------------------------------------
(* Day busy hours *)

Employees == {1, 2}

\* the rows of employee e on date d
Group(e, d) ==
    {id \in DOMAIN activities :
        activities[id].employee = e /\ activities[id].date = Some(d)}

\* SQL's Sum(table.duration) over rows: NULL values are skipped
RECURSIVE SumDurations(_)
SumDurations(ids) ==
    IF ids = {} THEN 0
    ELSE LET id == CHOOSE x \in ids : TRUE
         IN  (IF IsSet(activities[id].duration)
              THEN activities[id].duration[1] ELSE 0)
             + SumDurations(ids \ {id})

\* Sum(table.duration) of a group: NULL when no row of it has a duration
GroupSum(ids) ==
    IF \A id \in ids : ~IsSet(activities[id].duration) THEN None
    ELSE Some(SumDurations(ids))

\* Sum(table.duration) of the rows of the group but the activity's own
OthersSum(ids, own) == GroupSum(ids \ {own})

\* the total get_day_busy_hours reports for an activity of a group
DaySum(ids, own) == GroupSum(ids)

\* Activity.get_day_busy_hours(activities, name): lines 493-508 select the
\* groups of the employees and the dates of the batch, lines 510-514 look
\* each activity's group up, timedelta() standing in for a missing group
get_day_busy_hours(batch) ==
    LET employees == {activities[id].employee : id \in batch}
        dates == {activities[id].date[1] : id \in batch}
        min_date == CHOOSE d \in dates : \A x \in dates : d <= x
        max_date == CHOOSE d \in dates : \A x \in dates : d >= x
        keys == {k \in employees \X (min_date .. max_date) :
                    Group(k[1], k[2]) # {}}
    IN  [id \in batch |->
            LET key == <<activities[id].employee, activities[id].date[1]>>
            IN  IF key \in keys THEN DaySum(Group(key[1], key[2]), id)
                ELSE Some(0)]

\* the tables create leaves: every row has an employee, a date and perhaps
\* a duration
BusyTables ==
    {[i \in 1 .. MaxRows |->
        new_row(create_vals(
            Put(Mapping([date |-> Some(d[i]), time |-> Some(1),
                         duration |-> u[i]]), "employee", e[i]), i, 0))] :
        d \in [1 .. MaxRows -> Dates],
        u \in [1 .. MaxRows -> Opt(Durations) \ {None}],
        e \in [1 .. MaxRows -> Employees]}

InitBusy ==
    /\ sequence = Some(1)
    /\ number = MaxRows
    /\ now = 0
    /\ timezone = None
    /\ activities \in BusyTables
    /\ call \in {[op |-> "pending", batch |-> b] :
                    b \in (SUBSET (1 .. MaxRows)) \ {{}}}

\* the day_busy_hours of the activities of the batch are read
CallDayBusyHours ==
    /\ call.op = "pending"
    /\ call' = [op |-> "get_day_busy_hours", batch |-> call.batch,
                result |-> get_day_busy_hours(call.batch)]
    /\ UNCHANGED <<activities, sequence, number, now, timezone>>

NextBusy == CallDayBusyHours

SpecBusy == InitBusy /\ [][NextBusy]_vars

----------------------------------------------------------------------------
(* Properties of update_dates and on_change_dtstart, under SpecDates *)

\* the value update_dates works with for a field: the update's, else the
\* record's
Resolved(values, record, field) ==
    IF field \in DOMAIN values THEN values[field]
    ELSE IF IsSet(record) THEN record[1][field]
    ELSE None

\* the update reaches lines 426-445 with the date, time and duration it
\* and the record give
OnComputePath(values) ==
    \/ "date" \in DOMAIN values
    \/ "dtstart" \notin DOMAIN values /\ "dtend" \notin DOMAIN values

\* the update sets a start timestamp and no date
SetsDtstartOnly(values) ==
    /\ "date" \notin DOMAIN values
    /\ "dtstart" \in DOMAIN values
    /\ IsSet(values["dtstart"])

\* C1: when the resolved date, time and duration are all present (a zero
\* duration included), the mapping returned has a dtstart and a dtend with
\* dtend - dtstart = duration.  Stated for the updates that reach lines
\* 431-445 with these resolved values.
C1_EndMinusStartIsDuration ==
    ( /\ call.op = "update_dates"
      /\ OnComputePath(call.values)
      /\ IsSet(Resolved(call.values, call.record, "date"))
      /\ IsSet(Resolved(call.values, call.record, "time"))
      /\ IsSet(Resolved(call.values, call.record, "duration")) )
    => /\ ~Raised(call.result)
       /\ IsSet(Get(call.result, "dtstart"))
       /\ IsSet(Get(call.result, "dtend"))
       /\ call.result["dtend"][1] - call.result["dtstart"][1]
            = Resolved(call.values, call.record, "duration")[1]

\* C2: on the path that computes dtstart from a resolved date, dtend is
\* None whenever the resolved time or the resolved duration is None.
C2_NoEndWithoutTimeOrDuration ==
    ( /\ call.op = "update_dates"
      /\ OnComputePath(call.values)
      /\ IsSet(Resolved(call.values, call.record, "date"))
      /\ \/ ~IsSet(Resolved(call.values, call.record, "time"))
         \/ ~IsSet(Resolved(call.values, call.record, "duration")) )
    => /\ ~Raised(call.result)
       /\ "dtend" \in DOMAIN call.result
       /\ call.result["dtend"] = None

\* C3: a start timestamp whose company-local time is midnight yields the
\* time None, in on_change_dtstart and in update_dates called with a start
\* timestamp and no date.
C3_MidnightIsNoTime ==
    /\ ( /\ call.op = "on_change_dtstart"
         /\ IsSet(call.dtstart)
         /\ time_of(utc_to_local(call.dtstart[1])) = midnight )
       => call.result.time = None
    /\ ( /\ call.op = "update_dates"
         /\ SetsDtstartOnly(call.values)
         /\ time_of(utc_to_local(call.values["dtstart"][1])) = midnight )
       => /\ ~Raised(call.result)
          /\ Get(call.result, "time") = None

\* C4: update_dates called with a start timestamp and no date returns the
\* company-local date and time of that timestamp.
C4_DateTimeAreCompanyLocal ==
    ( /\ call.op = "update_dates"
      /\ SetsDtstartOnly(call.values) )
    => LET local == utc_to_local(call.values["dtstart"][1])
       IN  /\ ~Raised(call.result)
           /\ Get(call.result, "date") = Some(date_of(local))
           /\ \/ Get(call.result, "time") = Some(time_of(local))
              \/ /\ time_of(local) = midnight
                 /\ Get(call.result, "time") = None

\* C5: update_dates called with a start timestamp and no date returns that
\* start timestamp, with or without an end timestamp in the update.
C5_DtstartIsReturnedAsGiven ==
    ( /\ call.op = "update_dates"
      /\ SetsDtstartOnly(call.values) )
    => /\ ~Raised(call.result)
       /\ Get(call.result, "dtstart") = call.values["dtstart"]

----------------------------------------------------------------------------
(* Properties of the activity table, under Spec *)

\* the state a workflow method moves to
Target(op) ==
    IF op = "plan" THEN "planned" ELSE IF op = "do" THEN "done"
    ELSE "cancelled"

\* C6: the state of an activity is planned, done or cancelled; a new
\* activity is planned; the allowed transitions are the six pairs of
\* distinct states; after plan, do or cancel every activity it was called
\* on is planned, done or cancelled; a state only changes in such a call,
\* and never to itself.
C6_StatesAndTransitions ==
    /\ [](/\ \A id \in DOMAIN activities :
                activities[id].state \in {"planned", "done", "cancelled"}
          /\ _transitions =
                {p \in {"planned", "done", "cancelled"}
                       \X {"planned", "done", "cancelled"} : p[1] # p[2]}
          /\ call.op \in {"plan", "do", "cancel"} =>
                \A id \in call.ids : activities[id].state = Target(call.op))
    /\ [][\A id \in DOMAIN activities' :
            IF id \in DOMAIN activities
            THEN activities'[id].state # activities[id].state =>
                    /\ call'.op \in {"plan", "do", "cancel"}
                    /\ id \in call'.ids
                    /\ <<activities[id].state, activities'[id].state>>
                            \in _transitions
            ELSE activities'[id].state = "planned"]_vars

\* do has been called on an activity, planned when it was created, and the
\* activity is done
C6_Witness ==
    /\ call.op = "do"
    /\ \E id \in call.ids : activities[id].state = "done"

\* C9: create called while no sequence is configured raises UserError,
\* creates no record and takes no number from the sequence, whatever the
\* batch.
C9_CreateWithoutSequence ==
    [][(~IsSet(sequence) /\ call'.op = "create" /\ call' # call) =>
          /\ call'.raised = "UserError"
          /\ activities' = activities
          /\ number' = number]_vars

\* create of a batch of two has failed beside an existing activity
C9_Witness ==
    /\ call.op = "create"
    /\ call.raised = "UserError"
    /\ call.count = 2
    /\ Len(activities) = 1
    /\ number = 1

\* C11: a write whose mapping has none of date, time, duration, dtstart
\* and dtend, such as the state write of plan, do and cancel, leaves these
\* five fields of the record as they were, whatever the clock shows.
C11_StateWriteKeepsDates ==
    [][call'.op \in {"plan", "do", "cancel"} =>
          \A id \in DOMAIN activities :
              /\ activities'[id].date = activities[id].date
              /\ activities'[id].time = activities[id].time
              /\ activities'[id].duration = activities[id].duration
              /\ activities'[id].dtstart = activities[id].dtstart
              /\ activities'[id].dtend = activities[id].dtend]_vars

----------------------------------------------------------------------------
(* Properties of the calendar colours, under SpecColor *)

\* C7 as claimed: the base colour is the type's colour if the flag is set
\* and the type has one, otherwise the employee's colour if there is one,
\* otherwise the default.
C7_BaseColorFallsThrough ==
    call.op = "get_calendar_background_color" =>
        call.base =
            IF call.flag /\ TruthyText(call.type_color)
            THEN call.type_color[1]
            ELSE IF TruthyText(call.employee_color)
            THEN call.employee_color[1]
            ELSE <<Hash, 10, 11, 13, 6, 14, 3>>

\* C7 as amended: with the flag set the base colour is the type's colour,
\* or the default when the type has none; with the flag unset it is the
\* employee's colour, or the default when the employee has none.  A planned
\* activity's background is the base colour.
C7_BaseColorByFlag ==
    call.op = "get_calendar_background_color" =>
        /\ call.flag =>
              call.base = IF TruthyText(call.type_color)
                          THEN call.type_color[1]
                          ELSE <<Hash, 10, 11, 13, 6, 14, 3>>
        /\ ~call.flag =>
              call.base = IF TruthyText(call.employee_color)
                          THEN call.employee_color[1]
                          ELSE <<Hash, 10, 11, 13, 6, 14, 3>>
        /\ call.state = "planned" => call.result = call.base

\* the flag is set, the type has no colour, the employee has one
C7_Witness ==
    /\ call.op = "get_calendar_background_color"
    /\ call.flag
    /\ ~TruthyText(call.type_color)
    /\ TruthyText(call.employee_color)
    /\ call.state = "planned"
    /\ call.result = <<Hash, 10, 11, 13, 6, 14, 3>>

\* C10: the foreground is black exactly when the average of the channels
\* of the background exceeds 128, and white otherwise; the background of an
\* activity that is not planned is the base colour with
\* floor(0.8 * (255 - average)) added to every channel, clamped to 0..255;
\* a done activity with no type or employee colour has the background
\* '#d3feff', the faded default, and a black foreground.
C10_ForegroundFromBackground ==
    call.op = "get_calendar_color" =>
        LET bg == RGB(call.background)
            base == RGB(call.base)
            inc == (4 * (255 - (base[1] + base[2] + base[3]) \div 3)) \div 5
            faded == [i \in 1 .. 3 |->
                        IF base[i] + inc > 255 THEN 255
                        ELSE IF base[i] + inc < 0 THEN 0
                        ELSE base[i] + inc]
        IN  /\ call.result = IF (bg[1] + bg[2] + bg[3]) \div 3 > 128
                             THEN "black" ELSE "white"
            /\ call.state # "planned" =>
                  /\ bg = faded
                  /\ call.background =
                        <<Hash, faded[1] \div 16, faded[1] % 16,
                          faded[2] \div 16, faded[2] % 16,
                          faded[3] \div 16, faded[3] % 16>>
            /\ ( /\ call.state = "done"
                 /\ ~TruthyText(call.type_color)
                 /\ ~TruthyText(call.employee_color) ) =>
                  /\ call.background = <<Hash, 13, 3, 15, 14, 15, 15>>
                  /\ call.result = "black"

\* a done activity with no colours: faded default, black foreground
C10_Witness ==
    /\ call.op = "get_calendar_color"
    /\ call.state = "done"
    /\ call.type_color = None
    /\ call.employee_color = None
    /\ call.background = <<Hash, 13, 3, 15, 14, 15, 15>>
    /\ call.result = "black"

----------------------------------------------------------------------------
(* Properties of the day busy hours, under SpecBusy *)

\* the durations recorded for the rows ids, added up
RECURSIVE Total(_)
Total(ids) ==
    IF ids = {} THEN 0
    ELSE LET id == CHOOSE x \in ids : TRUE
         IN  (IF activities[id].duration = None THEN 0
              ELSE activities[id].duration[1]) + Total(ids \ {id})

\* the rows with the employee and the date of row own
SameDay(own) ==
    {id \in DOMAIN activities :
        /\ activities[id].employee = activities[own].employee
        /\ activities[id].date = activities[own].date}

\* C8 as claimed: every activity of the batch gets the total duration of
\* the other activities of its employee on its date, zero when they have
\* no recorded duration.
C8_BusyHoursOfOthers ==
    call.op = "get_day_busy_hours" =>
        \A id \in call.batch :
            call.result[id] = Some(Total(SameDay(id) \ {id}))

\* C8 as amended: every activity of the batch gets the total duration of
\* all the activities of its employee on its date, its own included, an
\* activity with no recorded duration adding nothing; it gets None when
\* none of them has a recorded duration.
C8_BusyHoursOfDay ==
    call.op = "get_day_busy_hours" =>
        /\ DOMAIN call.result = call.batch
        /\ \A id \in call.batch :
              call.result[id] =
                IF \A x \in SameDay(id) : activities[x].duration = None
                THEN None
                ELSE Some(Total(SameDay(id)))

\* two activities of one employee on one date, both with a duration, one
\* of them in the batch
C8_Witness ==
    /\ call.op = "get_day_busy_hours"
    /\ call.batch = {1}
    /\ SameDay(1) = {1, 2}
    /\ activities[1].duration = Some(1)
    /\ activities[2].duration = Some(1)
    /\ call.result[1] = Some(2)

====
